---- MODULE Spec2Model ----
(***************************************************************************)
(* A model of the inventory_history repository.                            *)
(*                                                                         *)
(*   scripts/build_app_ready.py  one batch run of main(): read the raw     *)
(*       feed INP, key every row, keep the first-seen state, project the   *)
(*       rows, sort them, write OUT, DELTA, META and the state file.       *)
(*   scripts/pull_inventory.py   one run of main(): download the feed,     *)
(*       compare its SHA-256 with the latest file, write the latest file,  *)
(*       a snapshot and one manifest row.                                  *)
(*                                                                         *)
(* Text is modelled as a sequence of one-character strings so that strip,  *)
(* upper, re.sub, float(), int() and the formatting of a float are         *)
(* computed as the code computes them.  A parsed number is an exact        *)
(* decimal [ok, neg, m, e] = (-1)^neg * m / 10^e.  Two places of the code  *)
(* depend on the binary representation of a double and not on the decimal  *)
(* value: round() on an exact tie (the feeds drawn here have none) and the *)
(* comparison abs(old_p - new_p) > 0.1 when the decimal difference is      *)
(* exactly 0.1 (abs(1.1 - 1.0) > 0.1 is True, abs(1.2 - 1.1) > 0.1 is      *)
(* False); the latter is an input of the run, see PriceChanged.            *)
(*                                                                         *)
(* The raw header names drawn here never equal a computed field name, so   *)
(* out_row.update(raw_map) (line 231) overwrites no computed field.  The   *)
(* computed fields stock, trim and image_url are not modelled: nothing     *)
(* reads them back.                                                        *)
(***************************************************************************)
EXTENDS Integers, Sequences, FiniteSets, TLC

(***************************************************************************)
(* Bounds of the model.                                                    *)
(***************************************************************************)
\* rows of one feed in the specification of the runs
MaxRows == 2
\* runs of build_app_ready.main in one behaviour of the specification of the runs
MaxRuns == 2
\* UTC dates are 0..MaxDay
MaxDay == 1
\* instants within one UTC date are 0..MaxTime
MaxTime == 1
\* rows the manifest grows to in the specification of the fetcher
MaxManifest == 2

(***************************************************************************)
(* Text                                                                    *)
(***************************************************************************)
\* the characters of the model, in code point order
Alphabet ==
    << " ", "$", ",", "-", ".",
       "0", "1", "2", "3", "4", "5", "6", "7", "8", "9",
       "A", "B", "C", "D", "E", "N", "O", "P", "R", "S", "U", "W", "X",
       "a", "b", "c", "d", "o", "p", "x" >>

Ord(c) == CHOOSE i \in DOMAIN Alphabet : Alphabet[i] = c

DigitChars == <<"0", "1", "2", "3", "4", "5", "6", "7", "8", "9">>

Digits == {DigitChars[i] : i \in DOMAIN DigitChars}

DigitVal(c) == (CHOOSE i \in DOMAIN DigitChars : DigitChars[i] = c) - 1

LowerChars == <<"a", "b", "c", "d", "o", "p", "x">>

UpperChars == <<"A", "B", "C", "D", "O", "P", "X">>

\* str.upper() of one character
UpperChar(c) ==
    IF \E i \in DOMAIN LowerChars : LowerChars[i] = c
    THEN UpperChars[CHOOSE i \in DOMAIN LowerChars : LowerChars[i] = c]
    ELSE c

\* str.upper()
Upper(s) == [i \in DOMAIN s |-> UpperChar(s[i])]

\* str.strip(): the leading and trailing blanks removed
Strip(s) ==
    LET nb == {i \in DOMAIN s : s[i] # " "}
    IN  IF nb = {} THEN <<>>
        ELSE LET lo == CHOOSE i \in nb : \A j \in nb : i <= j
                 hi == CHOOSE i \in nb : \A j \in nb : j <= i
             IN  SubSeq(s, lo, hi)

\* re.sub(r"[^...]", "", s): the characters of s that are in keep, in order
RECURSIVE ReSub(_, _)
ReSub(s, keep) ==
    IF s = <<>> THEN <<>>
    ELSE IF Head(s) \in keep THEN <<Head(s)>> \o ReSub(Tail(s), keep)
         ELSE ReSub(Tail(s), keep)

RECURSIVE Pow10(_)
Pow10(n) == IF n = 0 THEN 1 ELSE 10 * Pow10(n - 1)

\* the number a run of digits denotes
RECURSIVE DigitsValue(_)
DigitsValue(s) ==
    IF s = <<>> THEN 0
    ELSE 10 * DigitsValue(SubSeq(s, 1, Len(s) - 1)) + DigitVal(s[Len(s)])

\* the decimal digits of a natural number
RECURSIVE NatText(_)
NatText(n) ==
    IF n < 10 THEN <<DigitChars[n + 1]>>
    ELSE NatText(n \div 10) \o <<DigitChars[(n % 10) + 1]>>

\* s < t in Python's string order
RECURSIVE StrLess(_, _)
StrLess(s, t) ==
    IF t = <<>> THEN FALSE
    ELSE IF s = <<>> THEN TRUE
    ELSE IF Head(s) = Head(t) THEN StrLess(Tail(s), Tail(t))
    ELSE Ord(Head(s)) < Ord(Head(t))

StrLeq(s, t) == s = t \/ StrLess(s, t)

(***************************************************************************)
(* Numbers                                                                 *)
(***************************************************************************)
\* Python's None where a number is expected
None == [ok |-> FALSE, neg |-> FALSE, m |-> 0, e |-> 0]

Num(neg, m, e) == [ok |-> TRUE, neg |-> neg, m |-> m, e |-> e]

\* float(s) for a text of digits, "." and "-" only: an optional leading "-",
\* then digits with at most one "." and at least one digit; else ValueError
ParseFloat(s) ==
    LET neg  == s # <<>> /\ Head(s) = "-"
        body == IF neg THEN Tail(s) ELSE s
        dots == {i \in DOMAIN body : body[i] = "."}
        dot  == IF dots = {} THEN Len(body) + 1 ELSE CHOOSE i \in dots : TRUE
        ip   == SubSeq(body, 1, dot - 1)
        fp   == SubSeq(body, dot + 1, Len(body))
    IN  IF /\ Cardinality(dots) <= 1
           /\ \A i \in DOMAIN body : body[i] \in Digits \cup {"."}
           /\ Len(ip) + Len(fp) >= 1
        THEN Num(neg, DigitsValue(ip \o fp), Len(fp))
        ELSE None

\* int(s) for a text of digits and "-" only
ParseInt(s) ==
    LET neg  == s # <<>> /\ Head(s) = "-"
        body == IF neg THEN Tail(s) ELSE s
    IN  IF body # <<>> /\ \A i \in DOMAIN body : body[i] \in Digits
        THEN Num(neg, DigitsValue(body), 0)
        ELSE None

to_float(x) ==
    LET s == Strip(x)
    IN  IF s = <<>> THEN None ELSE ParseFloat(ReSub(s, Digits \cup {".", "-"}))

to_int(x) ==
    LET s == Strip(x)
    IN  IF s = <<>> THEN None ELSE ParseInt(ReSub(s, Digits \cup {"-"}))

\* the signed value of a number in units of 10^-e, for e >= its own scale
Scaled(v, e) == (IF v.neg THEN -1 ELSE 1) * v.m * Pow10(e - v.e)

MaxOf(a, b) == IF a >= b THEN a ELSE b

Abs(n) == IF n < 0 THEN -n ELSE n

\* a > b on two numbers
Greater(a, b) ==
    LET e == MaxOf(a.e, b.e) IN Scaled(a, e) > Scaled(b, e)

\* a - b
Minus(a, b) ==
    LET e == MaxOf(a.e, b.e)
        d == Scaled(a, e) - Scaled(b, e)
    IN  Num(d < 0, Abs(d), e)

\* round(v, 2): the nearest multiple of 0.01, an exact tie to the even one;
\* the sign is kept, as round(-0.001, 2) is -0.0
Round2(v) ==
    IF v.e <= 2 THEN Num(v.neg, v.m * Pow10(2 - v.e), 2)
    ELSE LET u == Pow10(v.e - 2)
             q == v.m \div u
             r == v.m % u
             c == IF 2 * r > u \/ (2 * r = u /\ q % 2 = 1) THEN q + 1 ELSE q
         IN  Num(v.neg, c, 2)

\* str() of a float that has at most two decimals: "32570.0", "1.2", "1.01"
FormatFloat(v) ==
    LET c    == v.m * Pow10(2 - v.e)
        frac == c % 100
        ft   == IF frac % 10 = 0 THEN NatText(frac \div 10)
                ELSE NatText(frac \div 10) \o NatText(frac % 10)
    IN  (IF v.neg THEN <<"-">> ELSE <<>>) \o NatText(c \div 100) \o <<".">> \o ft

(***************************************************************************)
(* build_app_ready.py: helpers                                             *)
(***************************************************************************)
COMPUTED_FIELDS ==
    << "key", "stock", "trim", "state_of_vehicle_norm", "age_days",
       "age_days_since_first_seen", "price_usd", "sale_price_usd",
       "discount_usd", "image_url", "first_seen_utc" >>

\* a row of csv.DictReader is a function from the header names to cell text;
\* row.get(n) is None for a name that is no column
RECURSIVE pick(_, _)
pick(row, names) ==
    IF names = <<>> THEN <<>>
    ELSE IF Head(names) \in DOMAIN row /\ Strip(row[Head(names)]) # <<>>
         THEN Strip(row[Head(names)])
         ELSE pick(row, Tail(names))

norm_state(s0) ==
    LET s == Upper(Strip(s0))
    IN  IF s \in {<<"N", "E", "W">>, <<"N">>} THEN <<"N", "E", "W">>
        ELSE IF s \in { <<"U", "S", "E", "D">>, <<"U">>,
                        <<"P", "R", "E", "O", "W", "N", "E", "D">>,
                        <<"P", "R", "E", "-", "O", "W", "N", "E", "D">>,
                        <<"C", "P", "O">> }
             THEN <<"U", "S", "E", "D">>
        ELSE s

\* an ISO-8601 timestamp text: its date, its time of day and how it writes the
\* UTC offset ("+00:00" as isoformat() does, or a trailing "Z"); valid is FALSE
\* for a text datetime.fromisoformat rejects
IsoFormat(now) ==
    [valid |-> TRUE, date |-> now.date, time |-> now.time, zone |-> "+00:00"]

parse_first_seen_date(iso_ts, fallback_date) ==
    IF iso_ts.valid /\ iso_ts.zone \in {"+00:00", "Z"} THEN iso_ts.date
    ELSE fallback_date

\* sorted(set of texts)
RECURSIVE Sorted(_)
Sorted(S) ==
    IF S = {} THEN <<>>
    ELSE LET lo == CHOOSE x \in S : \A y \in S : StrLeq(x, y)
         IN  <<lo>> \o Sorted(S \ {lo})

ToSet(seq) == {seq[i] : i \in DOMAIN seq}

(***************************************************************************)
(* build_app_ready.py: one input row                                       *)
(***************************************************************************)
\* lines 175-178
RowKey(row) ==
    LET vin_raw == Upper(Strip(pick(row, <<"vin">>)))
        vid_raw == Upper(Strip(pick(row, <<"vehicle_id">>)))
    IN  Strip(IF vin_raw # <<>> THEN vin_raw ELSE vid_raw)

\* a bug DiscountCell could have: the difference is written whatever its sign
DiscountCellUnguarded(price_usd, sale_usd) ==
    IF price_usd.ok /\ sale_usd.ok
    THEN FormatFloat(Round2(Minus(price_usd, sale_usd)))
    ELSE <<>>

\* lines 197-199 and 226: the text of the discount_usd cell
DiscountCell(price_usd, sale_usd) ==
    IF price_usd.ok /\ sale_usd.ok /\ Greater(price_usd, sale_usd)
    THEN LET discount_usd == Round2(Minus(price_usd, sale_usd))
         IN  IF discount_usd.m = 0 THEN <<>> ELSE FormatFloat(discount_usd)
    ELSE <<>>

\* lines 224, 225: the text of a price cell
PriceCell(p) == IF p.ok THEN FormatFloat(Round2(p)) ELSE <<>>

\* a bug AgeSinceFirstSeen could have: the difference of the dates, not clamped
AgeUnclamped(ts, today) == today - parse_first_seen_date(ts, today)

\* lines 187-192: the two ages
AgeSinceFirstSeen(ts, today) ==
    MaxOf(0, today - parse_first_seen_date(ts, today))

AgeDays(row, since) ==
    LET feed_age == to_int(pick(row, <<"Age">>))
    IN  IF feed_age.ok THEN Scaled(feed_age, 0) ELSE since

\* lines 173-233: the output row of a retained input row whose key is key and
\* whose first-seen timestamp is ts
ProjectRow(row, key, ts, today) ==
    LET since     == AgeSinceFirstSeen(ts, today)
        price_usd == to_float(pick(row, <<"price">>))
        sale_usd  == to_float(pick(row, <<"sale_price">>))
        state_raw == pick(row, <<"state_of_vehicle", "condition", "availability">>)
    IN  [ key                       |-> key,
          state_of_vehicle_norm     |-> norm_state(state_raw),
          age_days                  |-> AgeDays(row, since),
          age_days_since_first_seen |-> since,
          price_usd                 |-> PriceCell(price_usd),
          sale_price_usd            |-> PriceCell(sale_usd),
          discount_usd              |-> DiscountCell(price_usd, sale_usd),
          first_seen_utc            |-> ts,
          raw                       |-> row ]

\* a bug Observe could have: the timestamp is set whether or not key has one
ObserveOverwrite(first_seen, key, now) ==
    (key :> IsoFormat(now)) @@ first_seen

\* lines 184, 185: the first-seen map after key is seen at now
Observe(first_seen, key, now) ==
    IF key \in DOMAIN first_seen THEN first_seen
    ELSE first_seen @@ (key :> IsoFormat(now))

\* lines 171-233: the loop over the feed's rows; acc is the state of the loop
RECURSIVE ReadRows(_, _, _)
ReadRows(rows, now, acc) ==
    IF rows = <<>> THEN acc
    ELSE LET row == Head(rows)
             key == RowKey(row)
         IN  IF key = <<>> THEN ReadRows(Tail(rows), now, acc)
             ELSE LET fs == Observe(acc.first_seen, key, now)
                  IN  ReadRows(Tail(rows), now,
                               [ first_seen |-> fs,
                                 now_keys   |-> acc.now_keys \cup {key},
                                 rows_out   |-> Append(acc.rows_out,
                                                  ProjectRow(row, key, fs[key], now.date)) ])

(***************************************************************************)
(* build_app_ready.py: the sort, the previous output, the delta            *)
(***************************************************************************)
\* r.get("model", ""): model is no computed field, it is the raw column
ModelOf(r) == IF "model" \in DOMAIN r.raw THEN r.raw["model"] ELSE <<>>

\* sort_key(a) <= sort_key(b), lines 236-241
SortKeyLeq(a, b) ==
    \/ StrLess(a.state_of_vehicle_norm, b.state_of_vehicle_norm)
    \/ /\ a.state_of_vehicle_norm = b.state_of_vehicle_norm
       /\ \/ StrLess(ModelOf(a), ModelOf(b))
          \/ ModelOf(a) = ModelOf(b) /\ StrLeq(a.key, b.key)

\* list.sort(key=sort_key) is stable: r goes after every row not greater than it
RECURSIVE InsertSorted(_, _)
InsertSorted(sorted, r) ==
    IF sorted = <<>> THEN <<r>>
    ELSE IF SortKeyLeq(Head(sorted), r)
         THEN <<Head(sorted)>> \o InsertSorted(Tail(sorted), r)
         ELSE <<r>> \o sorted

RECURSIVE SortRows(_)
SortRows(rows) ==
    IF rows = <<>> THEN <<>>
    ELSE InsertSorted(SortRows(SubSeq(rows, 1, Len(rows) - 1)), rows[Len(rows)])

\* lines 143-149: key -> row of the previous output; a later row replaces an
\* earlier one of the same key
ReadPrev(file) ==
    LET rows == IF file.exists THEN file.rows ELSE <<>>
        keys == {Strip(rows[i].key) : i \in DOMAIN rows} \ {<<>>}
    IN  [k \in keys |->
            rows[CHOOSE i \in DOMAIN rows :
                    /\ Strip(rows[i].key) = k
                    /\ \A j \in DOMAIN rows : Strip(rows[j].key) = k => j <= i]]

\* line 267: key -> to_float of the sale_price_usd cell, a later row replacing
\* an earlier one of the same key
CurPrice(rows_out) ==
    [k \in {rows_out[i].key : i \in DOMAIN rows_out} |->
        to_float(rows_out[CHOOSE i \in DOMAIN rows_out :
                    /\ rows_out[i].key = k
                    /\ \A j \in DOMAIN rows_out : rows_out[j].key = k => j <= i
                 ].sale_price_usd)]

\* the tolerance of line 272
Tolerance == Num(FALSE, 1, 1)

\* abs(old_p - new_p) > 0.1 on doubles.  Above the tolerance in decimal it is
\* True, below it False; at a decimal difference of exactly the tolerance the
\* doubles decide (fpAbove)
ExceedsTolerance(old_p, new_p, fpAbove) ==
    LET e == MaxOf(MaxOf(old_p.e, new_p.e), Tolerance.e)
        d == Abs(Scaled(old_p, e) - Scaled(new_p, e))
        t == Scaled(Tolerance, e)
    IN  d > t \/ (d = t /\ fpAbove)

AtTolerance(old_p, new_p) ==
    LET e == MaxOf(MaxOf(old_p.e, new_p.e), Tolerance.e)
    IN  Abs(Scaled(old_p, e) - Scaled(new_p, e)) = Scaled(Tolerance, e)

\* a bug Added could have: every key of the run counts as new
AddedAll(now_keys, prev) == Sorted(now_keys)

\* a bug Removed could have: every key of the previous output counts as gone
RemovedAll(now_keys, prev) == Sorted(DOMAIN prev)

\* lines 264, 265
Added(now_keys, prev) == Sorted(now_keys \ DOMAIN prev)

Removed(now_keys, prev) == Sorted(DOMAIN prev \ now_keys)

\* the keys of both runs whose two sale prices parse
Comparable(now_keys, prev, cur_price) ==
    {k \in now_keys \cap DOMAIN prev :
        to_float(prev[k].sale_price_usd).ok /\ k \in DOMAIN cur_price /\ cur_price[k].ok}

\* lines 267-273 and 281; above is the set of keys on which the doubles put a
\* difference of exactly the tolerance above it
PriceChanged(now_keys, prev, cur_price, above) ==
    Sorted({k \in Comparable(now_keys, prev, cur_price) :
                ExceedsTolerance(to_float(prev[k].sale_price_usd), cur_price[k],
                                 k \in above)})

\* the keys whose comparison the doubles decide
TieKeys(now_keys, prev, cur_price) ==
    {k \in Comparable(now_keys, prev, cur_price) :
        AtTolerance(to_float(prev[k].sale_price_usd), cur_price[k])}

(***************************************************************************)
(* State: the files on disk.                                               *)
(***************************************************************************)
VARIABLES
    OUT,        \* data/latest/app_ready.csv: [exists, hdrs, rows]
    FIRST_SEEN, \* the STATE file data/state/first_seen.json: [exists, map]
    META,       \* data/latest/meta.json
    DELTA,      \* data/latest/delta.json
    last,       \* what the last run of build_app_ready.main read and how it ended
    runs,       \* the number of runs of build_app_ready.main so far
    LATEST,     \* data/latest/MP16607.csv as pull_inventory leaves it
    SNAPSHOTS,  \* data/snapshots: snapshot path -> content
    MANIFEST,   \* data/manifest.csv: [exists, rows]
    pull        \* how the last run of pull_inventory.main ended

buildVars == <<OUT, FIRST_SEEN, META, DELTA, last, runs>>

pullVars == <<LATEST, SNAPSHOTS, MANIFEST, pull>>

vars == <<OUT, FIRST_SEEN, META, DELTA, last, runs, LATEST, SNAPSHOTS, MANIFEST, pull>>

(***************************************************************************)
(* Inputs of a run of build_app_ready.main: the feed file and the clock.   *)
(***************************************************************************)
Days == 0 .. MaxDay

Times == 0 .. MaxTime

\* datetime.now(timezone.utc); the clock of a later run may be behind
Nows == [date : Days, time : Times]

\* the cell texts a column of the feed takes
CellsOf(h) ==
    CASE h \in {"vin", "VIN"} -> { <<>>, <<" ", "a", "1">> }
      [] h = "vehicle_id"     -> { <<>>, <<"b", "2">> }
      [] h = "price"          -> { <<>>, <<"$", "1", ".", "0", "1", "4">>,
                                   <<"1", ".", "2">>, <<"x">> }
      [] h = "sale_price"     -> { <<>>, <<"1", ".", "0", "0", "6">>,
                                   <<"1", ".", "0", "1">>, <<"1", ".", "2">>,
                                   <<"1", "-", "2">> }
      [] h = "Age"            -> { <<>>, <<"3", "d">>, <<"x">> }
      [] h = "condition"      -> { <<"c", "p", "o">> }
      [] OTHER                -> { <<>> }

\* the rows over a header: every column takes every one of its cell texts
RowsOver(headers, cells(_)) ==
    {r \in [ToSet(headers) -> UNION {cells(h) : h \in ToSet(headers)}] :
        \A h \in ToSet(headers) : r[h] \in cells(h)}

FeedsOver(headers, cells(_), n) ==
    [ exists  : {TRUE},
      headers : {headers},
      rows    : UNION {[1 .. k -> RowsOver(headers, cells)] : k \in 0 .. n} ]

\* INP does not exist
MissingFeed == [exists |-> FALSE, headers |-> <<>>, rows |-> <<>>]

\* INP is empty: csv.DictReader finds no header
EmptyFeed == [exists |-> TRUE, headers |-> <<>>, rows |-> <<>>]

\* the cell texts of the specification of the runs: every row has a key, A1
\* from vin or else B2 from vehicle_id; the sale prices 1.0 and 1.1 differ by
\* exactly the tolerance of the delta, 1.5 differs from both by more
RunCells(h) ==
    CASE h = "vehicle_id" -> { <<"b", "2">> }
      [] h = "sale_price" -> { <<>>, <<"1", ".", "0">>, <<"1", ".", "1">>,
                               <<"1", ".", "5">> }
      [] OTHER -> CellsOf(h)

RunHeaders == <<"vin", "vehicle_id", "sale_price">>

\* the feeds of the run specification
RunFeeds ==
    FeedsOver(RunHeaders, RunCells, MaxRows)
      \cup FeedsOver(<<"price", "sale_price">>, CellsOf, 0)
      \cup {MissingFeed, EmptyFeed}

\* the one-row feeds of the row specification
RowFeeds ==
    FeedsOver(<<"vin", "vehicle_id", "price", "sale_price", "Age">>, CellsOf, 1)
      \cup FeedsOver(<<"VIN", "price", "condition">>, CellsOf, 1)
      \cup FeedsOver(<<"price", "sale_price">>, CellsOf, 1)
      \cup {MissingFeed, EmptyFeed}

(***************************************************************************)
(* build_app_ready.main                                                    *)
(***************************************************************************)
NoFile == [exists |-> FALSE, hdrs |-> <<>>, rows |-> <<>>]

NoState == [exists |-> FALSE, map |-> <<>>]

NoMeta == [exists |-> FALSE, ts_utc |-> IsoFormat([date |-> 0, time |-> 0]),
           rows |-> 0, raw_headers |-> <<>>, out_fields |-> <<>>]

NoDelta == [exists |-> FALSE, ts_utc |-> IsoFormat([date |-> 0, time |-> 0]),
            added |-> <<>>, removed |-> <<>>, price_changed |-> <<>>,
            counts |-> [now |-> 0, prev |-> 0]]

\* last.again: the run came right after a completed run over the same feed
\* on the same UTC date
NoRun == [status |-> "none", error |-> "", inp |-> MissingFeed,
          now |-> [date |-> 0, time |-> 0], now_keys |-> {}, prev_keys |-> {},
          again |-> FALSE]

Again(feed, now) ==
    last.status = "ok" /\ last.inp = feed /\ last.now.date = now.date

\* h.lower() of a header name
LowerName(h) ==
    CASE h = "VIN" -> "vin"
      [] h = "Age" -> "age"
      [] OTHER     -> h

\* lines 163, 164
Keyable(headers) ==
    LET lower_headers == [i \in DOMAIN headers |-> LowerName(headers[i])]
    IN  "vin" \in ToSet(lower_headers) \/ "vehicle_id" \in ToSet(lower_headers)

\* a bug Aborted could have: OUT is opened for writing before the feed is
\* validated, so an aborted run leaves it empty
AbortedAfterTruncate(feed, now, msg) ==
    /\ last' = [status |-> "abort", error |-> msg, inp |-> feed, now |-> now,
                now_keys |-> {}, prev_keys |-> {}, again |-> Again(feed, now)]
    /\ OUT' = [exists |-> TRUE, hdrs |-> <<>>, rows |-> <<>>]
    /\ UNCHANGED <<FIRST_SEEN, META, DELTA>>

\* lines 136, 137, 159, 160, 164, 165: SystemExit before anything is written
Aborted(feed, now, msg) ==
    /\ last' = [status |-> "abort", error |-> msg, inp |-> feed, now |-> now,
                now_keys |-> {}, prev_keys |-> {}, again |-> Again(feed, now)]
    /\ UNCHANGED <<OUT, FIRST_SEEN, META, DELTA>>

\* lines 136, 137
InputNotFound(feed, now) ==
    /\ ~feed.exists
    /\ Aborted(feed, now, "Input not found")

\* lines 159, 160
NoHeaders(feed, now) ==
    /\ feed.exists
    /\ feed.headers = <<>>
    /\ Aborted(feed, now, "Input CSV has no headers.")

\* lines 162-165
NoKeyColumn(feed, now) ==
    /\ feed.exists
    /\ feed.headers # <<>>
    /\ ~Keyable(feed.headers)
    /\ Aborted(feed, now, "No vin or vehicle_id column found")

\* lines 140-301: a run that reaches its end.  The values the run computes are
\* bound by \E over a one-element set, so that each is computed once.
Completed(feed, now) ==
    /\ feed.exists
    /\ feed.headers # <<>>
    /\ Keyable(feed.headers)
    /\ \E first_seen \in {IF FIRST_SEEN.exists THEN FIRST_SEEN.map ELSE <<>>},
          prev \in {ReadPrev(OUT)} :
       \E acc \in {ReadRows(feed.rows, now,
                            [first_seen |-> first_seen, now_keys |-> {},
                             rows_out |-> <<>>])} :
       \E rows_out \in {SortRows(acc.rows_out)} :
       \E cur_price \in {CurPrice(rows_out)} :
       \E above \in SUBSET TieKeys(acc.now_keys, prev, cur_price) :
         /\ OUT' = [exists |-> TRUE, hdrs |-> feed.headers, rows |-> rows_out]
         /\ DELTA' = [ exists        |-> TRUE,
                       ts_utc        |-> IsoFormat(now),
                       added         |-> Added(acc.now_keys, prev),
                       removed       |-> Removed(acc.now_keys, prev),
                       price_changed |-> PriceChanged(acc.now_keys, prev,
                                                      cur_price, above),
                       counts        |-> [now  |-> Cardinality(acc.now_keys),
                                          prev |-> Cardinality(DOMAIN prev)] ]
         /\ META' = [ exists      |-> TRUE,
                      ts_utc      |-> IsoFormat(now),
                      rows        |-> Len(rows_out),
                      raw_headers |-> feed.headers,
                      out_fields  |-> COMPUTED_FIELDS \o feed.headers ]
         /\ FIRST_SEEN' = [exists |-> TRUE, map |-> acc.first_seen]
         /\ last' = [status |-> "ok", error |-> "", inp |-> feed, now |-> now,
                     now_keys |-> acc.now_keys, prev_keys |-> DOMAIN prev,
                     again |-> Again(feed, now)]

\* one run of build_app_ready.main
main(feed, now) ==
    /\ \/ InputNotFound(feed, now)
       \/ NoHeaders(feed, now)
       \/ NoKeyColumn(feed, now)
       \/ Completed(feed, now)
    /\ runs' = runs + 1
    /\ UNCHANGED pullVars

(***************************************************************************)
(* pull_inventory.py                                                       *)
(***************************************************************************)
FEED_URLS == <<"https", "http">>

\* the bodies a download returns: a text of lines
Bodies == { <<"h", "\n">>, <<"h", "\n", "r", "\n">> }

\* what _download does for one URL: it raises, or returns bytes (maybe none)
Responses == {[raised |-> TRUE, data |-> <<>>]}
               \cup [raised : {FALSE}, data : Bodies \cup {<<>>}]

\* hashlib.sha256(b).hexdigest(): a digest that tells any two contents apart
sha256_bytes(b) == <<"sha256">> \o b

\* lines 43-47: the lines of the text
count_csv_rows(data) ==
    Cardinality({i \in DOMAIN data : data[i] = "\n"})
      + (IF data # <<>> /\ data[Len(data)] # "\n" THEN 1 ELSE 0)

\* lines 56-59; None is the empty digest
read_latest_sha == IF LATEST.exists THEN sha256_bytes(LATEST.data) ELSE <<>>

\* line 105: a URL's download counts when it neither raised nor came back empty
Good(r) == ~r.raised /\ r.data # <<>>

\* a bug fetch_feed could have: an empty download is taken for the feed
fetch_feed_any(resp) ==
    IF \E i \in DOMAIN FEED_URLS : ~resp[i].raised
    THEN CHOOSE i \in DOMAIN FEED_URLS :
            ~resp[i].raised /\ \A j \in DOMAIN FEED_URLS : ~resp[j].raised => i <= j
    ELSE 0

\* lines 102-109: the first URL, in order, whose download counts; 0 if none
fetch_feed(resp) ==
    IF \E i \in DOMAIN FEED_URLS : Good(resp[i])
    THEN CHOOSE i \in DOMAIN FEED_URLS :
            Good(resp[i]) /\ \A j \in DOMAIN FEED_URLS : Good(resp[j]) => i <= j
    ELSE 0

\* dt.datetime.utcnow().replace(microsecond=0): the seconds of one day
PullNows == [date : {0}, time : Times]

\* lines 129-135: the snapshot path is named by the clock, to the second
snap_path(now) == <<"snapshots", now.date, now.time>>

\* line 111
FetchFailed(resp, now) ==
    /\ fetch_feed(resp) = 0
    /\ pull' = [status |-> "failed", resp |-> resp, now |-> now, url_used |-> ""]
    /\ UNCHANGED <<LATEST, SNAPSHOTS, MANIFEST>>

\* lines 121-123
NoChange(resp, now) ==
    /\ fetch_feed(resp) # 0
    /\ read_latest_sha = sha256_bytes(resp[fetch_feed(resp)].data)
    /\ pull' = [status |-> "nochange", resp |-> resp, now |-> now,
                url_used |-> FEED_URLS[fetch_feed(resp)]]
    /\ UNCHANGED <<LATEST, SNAPSHOTS, MANIFEST>>

\* lines 62-77: the header is written with the first row
append_manifest(row) == [exists |-> TRUE, rows |-> Append(MANIFEST.rows, row)]

\* lines 125-154
Updated(resp, now) ==
    /\ fetch_feed(resp) # 0
    /\ Len(MANIFEST.rows) < MaxManifest
    /\ LET url_used == FEED_URLS[fetch_feed(resp)]
           data     == resp[fetch_feed(resp)].data
           new_sha  == sha256_bytes(data)
       IN  /\ read_latest_sha # new_sha
           /\ LATEST' = [exists |-> TRUE, data |-> data]
           /\ SNAPSHOTS' = (snap_path(now) :> data) @@ SNAPSHOTS
           /\ MANIFEST' = append_manifest(
                  [ timestamp_utc |-> now,
                    url_used      |-> url_used,
                    sha256        |-> new_sha,
                    bytes         |-> Len(data),
                    csv_rows_including_header |-> count_csv_rows(data),
                    snapshot_path |-> snap_path(now) ])
           /\ pull' = [status |-> "updated", resp |-> resp, now |-> now,
                       url_used |-> url_used]

\* one run of pull_inventory.main
pull_main(resp, now) ==
    /\ \/ FetchFailed(resp, now)
       \/ NoChange(resp, now)
       \/ Updated(resp, now)
    /\ UNCHANGED buildVars

(***************************************************************************)
(* Specifications                                                          *)
(***************************************************************************)
BuildInit ==
    /\ OUT = NoFile
    /\ FIRST_SEEN = NoState
    /\ META = NoMeta
    /\ DELTA = NoDelta
    /\ last = NoRun
    /\ runs = 0

PullInit ==
    /\ LATEST = [exists |-> FALSE, data |-> <<>>]
    /\ SNAPSHOTS = <<>>
    /\ MANIFEST = [exists |-> FALSE, rows |-> <<>>]
    /\ pull = [status |-> "none", resp |-> <<>>, now |-> [date |-> 0, time |-> 0],
               url_used |-> ""]

\* a fresh checkout: no output, no state, nothing downloaded
Init == BuildInit /\ PullInit

\* runs of the pipeline, one after the other, over any feeds and clocks
Next == runs < MaxRuns /\ \E feed \in RunFeeds, now \in Nows : main(feed, now)

Spec == Init /\ [][Next]_vars

\* the first-seen files a single run is checked against: none, one that holds
\* the key A1 since some instant (written with "+00:00" or with a trailing "Z"),
\* and one whose timestamp is no ISO-8601 text
SeedStamps ==
    [valid : {TRUE}, date : Days, time : {0}, zone : {"+00:00", "Z"}]
      \cup {[valid |-> FALSE, date |-> 0, time |-> 0, zone |-> ""]}

SeedStates ==
    {NoState} \cup {[exists |-> TRUE, map |-> (<<"A", "1">> :> ts)] : ts \in SeedStamps}

InitRow ==
    /\ OUT = NoFile
    /\ FIRST_SEEN \in SeedStates
    /\ META = NoMeta
    /\ DELTA = NoDelta
    /\ last = NoRun
    /\ runs = 0
    /\ PullInit

\* one run over a feed of at most one row, all values of every cell drawn
NextRow == runs = 0 /\ \E feed \in RowFeeds, now \in Nows : main(feed, now)

SpecRow == InitRow /\ [][NextRow]_vars

\* runs of the fetcher, one after the other, over any downloads and clocks
NextPull ==
    \E resp \in [DOMAIN FEED_URLS -> Responses], now \in PullNows : pull_main(resp, now)

SpecPull == Init /\ [][NextPull]_vars
(***************************************************************************)
(* Properties                                                              *)
(***************************************************************************)
Ran == runs' = runs + 1

\* the row a reader of the table keeps for key k: the last one in file order
RowOf(file, k) ==
    file.rows[CHOOSE i \in DOMAIN file.rows :
                 /\ file.rows[i].key = k
                 /\ \A j \in DOMAIN file.rows : file.rows[j].key = k => j <= i]

KeysIn(file) == {file.rows[i].key : i \in DOMAIN file.rows}

IsSorted(seq) == \A i, j \in DOMAIN seq : i < j => StrLess(seq[i], seq[j])

\* C1: over any runs, every key of the first-seen state stays in it with the
\* timestamp it had, whether or not the run's feed still has the key.
C1_FirstSeenOnlyGrows ==
    [][\A k \in DOMAIN FIRST_SEEN.map :
          /\ k \in DOMAIN FIRST_SEEN'.map
          /\ FIRST_SEEN'.map[k] = FIRST_SEEN.map[k]]_vars

\* a completed run at another instant than the first one's, after which one key
\* that left the feed and one that stayed both keep the earlier timestamp
C1_Witness ==
    /\ last.status = "ok"
    /\ \E k \in DOMAIN FIRST_SEEN.map \ last.now_keys :
          FIRST_SEEN.map[k] # IsoFormat(last.now)
    /\ \E k \in last.now_keys : FIRST_SEEN.map[k] # IsoFormat(last.now)

\* C2: after a completed run, with NOW the run's keys and PREV the keys read
\* from the previous output: added = NOW \ PREV, removed = PREV \ NOW, the two
\* are disjoint, price_changed is within NOW and PREV, and added, removed and
\* the keys of both runs make up NOW union PREV.
C2_DeltaCompleteness ==
    last.status = "ok" =>
        LET NOW     == last.now_keys
            PREV    == last.prev_keys
            added   == ToSet(DELTA.added)
            removed == ToSet(DELTA.removed)
        IN  /\ added = NOW \ PREV
            /\ removed = PREV \ NOW
            /\ added \cap removed = {}
            /\ ToSet(DELTA.price_changed) \subseteq (NOW \cap PREV)
            /\ added \cup removed \cup (NOW \cap PREV) = NOW \cup PREV

\* a run that both gained a key and lost one
C2_Witness ==
    last.status = "ok" /\ DELTA.added # <<>> /\ DELTA.removed # <<>>

\* C3: an output row whose asking price parses and whose sale price is blank
\* or does not parse has sale_price_usd equal to price_usd and no discount.
C3_SaleInheritsAsking ==
    \A i \in DOMAIN OUT.rows :
        LET r == OUT.rows[i]
        IN  (/\ to_float(pick(r.raw, <<"price">>)).ok
             /\ ~to_float(pick(r.raw, <<"sale_price">>)).ok)
            => (r.sale_price_usd = r.price_usd /\ r.discount_usd = <<>>)

\* the value of the column named name under any letter case, "" if there is none
AnyCase(row, name) ==
    IF \E h \in DOMAIN row : LowerName(h) = name
    THEN Strip(row[CHOOSE h \in DOMAIN row : LowerName(h) = name])
    ELSE <<>>

\* C4: after a completed run, a row of the feed whose vin value (the header in
\* any letter case) or else vehicle_id value is non-blank is in the output
\* under that value, trimmed and in upper case; a row with both blank is not
\* in the output; no output row has an empty key.
C4_KeyUnderAnyHeaderCase ==
    last.status = "ok" =>
        /\ \A i \in DOMAIN last.inp.rows :
              LET row       == last.inp.rows[i]
                  primary   == Strip(Upper(AnyCase(row, "vin")))
                  secondary == Strip(Upper(AnyCase(row, "vehicle_id")))
                  key       == IF primary # <<>> THEN primary ELSE secondary
              IN  IF key = <<>>
                  THEN \A j \in DOMAIN OUT.rows : OUT.rows[j].raw # row
                  ELSE \E j \in DOMAIN OUT.rows :
                          OUT.rows[j].raw = row /\ OUT.rows[j].key = key
        /\ \A j \in DOMAIN OUT.rows : OUT.rows[j].key # <<>>

\* C5: a run that aborts leaves the output table, the first-seen state, the
\* metadata and the delta as they were.
C5_AbortWritesNothing ==
    [][(Ran /\ last'.status = "abort")
          => (OUT' = OUT /\ FIRST_SEEN' = FIRST_SEEN /\ META' = META /\ DELTA' = DELTA)]_vars

\* a run that aborted on a feed without identity columns, after a completed run
\* had written all four files
C5_Witness ==
    /\ last.status = "abort"
    /\ last.error = "No vin or vehicle_id column found"
    /\ OUT.exists /\ OUT.rows # <<>>
    /\ FIRST_SEEN.exists /\ META.exists /\ DELTA.exists

\* the cents of a two-decimal cell text
Cents(cell) == Scaled(to_float(cell), 2)

\* C6 as stated: in every output row discount_usd is empty, or positive and
\* equal to the row's price_usd minus its sale_price_usd; it is empty when
\* either of the two cells is empty or price_usd <= sale_price_usd.
C6_DiscountOfOutputPrices ==
    \A i \in DOMAIN OUT.rows :
        LET r == OUT.rows[i]
        IN  /\ r.discount_usd # <<>> =>
                 /\ r.price_usd # <<>> /\ r.sale_price_usd # <<>>
                 /\ Cents(r.discount_usd) > 0
                 /\ Cents(r.discount_usd) = Cents(r.price_usd) - Cents(r.sale_price_usd)
            /\ (\/ r.price_usd = <<>>
                \/ r.sale_price_usd = <<>>
                \/ Cents(r.price_usd) <= Cents(r.sale_price_usd))
                 => r.discount_usd = <<>>

\* C6 as amended: in every output row discount_usd is empty, or a positive
\* number of cents that is nearest to the parsed asking price minus the parsed
\* sale price, the two prices taken before they are rounded for their own
\* cells; it is empty when either price does not parse or asking <= sale.
C6_DiscountOfParsedPrices ==
    \A i \in DOMAIN OUT.rows :
        LET r     == OUT.rows[i]
            price == to_float(pick(r.raw, <<"price">>))
            sale  == to_float(pick(r.raw, <<"sale_price">>))
            e     == MaxOf(MaxOf(price.e, sale.e), 2)
            diff  == Scaled(price, e) - Scaled(sale, e)
        IN  /\ r.discount_usd # <<>> =>
                 /\ price.ok /\ sale.ok
                 /\ Cents(r.discount_usd) > 0
                 /\ 2 * Abs(diff - Cents(r.discount_usd) * Pow10(e - 2)) <= Pow10(e - 2)
            /\ (~price.ok \/ ~sale.ok \/ diff <= 0) => r.discount_usd = <<>>

\* a row with a discount whose two price cells are equal: 1.014 and 1.006 are
\* both written 1.01, their difference 0.008 is written 0.01
C6_Witness ==
    \E i \in DOMAIN OUT.rows :
        LET r == OUT.rows[i]
        IN  /\ r.discount_usd # <<>>
            /\ r.price_usd = r.sale_price_usd

\* C7: a completed run right after a completed run over the same feed on the
\* same UTC date writes the same output table and a delta whose added,
\* removed and price_changed lists are empty.
C7_RerunIsStable ==
    [][(Ran /\ last.status = "ok" /\ last'.status = "ok"
            /\ last'.inp = last.inp /\ last'.now.date = last.now.date)
          => /\ OUT' = OUT
             /\ DELTA'.added = <<>>
             /\ DELTA'.removed = <<>>
             /\ DELTA'.price_changed = <<>>]_vars

\* such a second run, at a later instant of the day, over a feed with rows
C7_Witness ==
    /\ last.status = "ok"
    /\ last.again
    /\ OUT.rows # <<>>
    /\ \E i \in DOMAIN OUT.rows : OUT.rows[i].first_seen_utc # IsoFormat(last.now)

\* C8: after a completed run a key is in price_changed exactly if it is a key
\* of this output and of the previous one, its sale_price_usd parses in both
\* and the two numbers differ by more than 0.1; the list is sorted.
C8_PriceChangedIffBeyondTolerance ==
    [][(Ran /\ last'.status = "ok") =>
          /\ \A k \in KeysIn(OUT) \cup KeysIn(OUT') \cup ToSet(DELTA'.price_changed) :
                k \in ToSet(DELTA'.price_changed)
                  <=> /\ k \in KeysIn(OUT) \cap KeysIn(OUT')
                      /\ to_float(RowOf(OUT, k).sale_price_usd).ok
                      /\ to_float(RowOf(OUT', k).sale_price_usd).ok
                      /\ Abs(Cents(RowOf(OUT, k).sale_price_usd)
                               - Cents(RowOf(OUT', k).sale_price_usd)) > 10
          /\ IsSorted(DELTA'.price_changed)]_vars

\* C9: in every output row age_days_since_first_seen is max(0, today - the date
\* of first_seen_utc), 0 when first_seen_utc is no timestamp, never negative;
\* age_days is the feed's Age when that parses as an integer and
\* age_days_since_first_seen otherwise.
C9_Ages ==
    \A i \in DOMAIN OUT.rows :
        LET r     == OUT.rows[i]
            today == last.now.date
            Age   == to_int(pick(r.raw, <<"Age">>))
        IN  /\ r.age_days_since_first_seen >= 0
            /\ r.first_seen_utc.valid =>
                 r.age_days_since_first_seen
                    = (IF today > r.first_seen_utc.date
                       THEN today - r.first_seen_utc.date ELSE 0)
            /\ ~r.first_seen_utc.valid => r.age_days_since_first_seen = 0
            /\ Age.ok => r.age_days = Scaled(Age, 0)
            /\ ~Age.ok => r.age_days = r.age_days_since_first_seen

\* a row first seen on a later date than the run's, with a feed Age
C9_Witness ==
    \E i \in DOMAIN OUT.rows :
        LET r == OUT.rows[i]
        IN  /\ r.first_seen_utc.valid
            /\ r.first_seen_utc.date > last.now.date
            /\ r.age_days # r.age_days_since_first_seen

\* C10: a run of the fetcher uses the first URL, in order, whose download
\* neither fails nor is empty, and fails only if there is none; if the bytes
\* have the SHA-256 of the latest file nothing changes; otherwise the latest
\* file becomes the bytes, the snapshot named by the clock holds them, no other
\* snapshot changes, and the manifest is the old one plus one row.
C10_Fetcher ==
    [][pull' # pull =>
        LET resp == pull'.resp
            good == {i \in DOMAIN FEED_URLS : ~resp[i].raised /\ resp[i].data # <<>>}
        IN  IF good = {}
            THEN /\ pull'.status = "failed"
                 /\ UNCHANGED <<LATEST, SNAPSHOTS, MANIFEST>>
            ELSE LET first == CHOOSE i \in good : \A j \in good : i <= j
                     data  == resp[first].data
                 IN  /\ pull'.status # "failed"
                     /\ pull'.url_used = FEED_URLS[first]
                     /\ IF LATEST.exists /\ sha256_bytes(LATEST.data) = sha256_bytes(data)
                        THEN UNCHANGED <<LATEST, SNAPSHOTS, MANIFEST>>
                        ELSE /\ LATEST' = [exists |-> TRUE, data |-> data]
                             /\ snap_path(pull'.now) \in DOMAIN SNAPSHOTS'
                             /\ SNAPSHOTS'[snap_path(pull'.now)] = data
                             /\ \A q \in DOMAIN SNAPSHOTS : q \in DOMAIN SNAPSHOTS'
                             /\ \A q \in DOMAIN SNAPSHOTS' \ {snap_path(pull'.now)} :
                                   q \in DOMAIN SNAPSHOTS /\ SNAPSHOTS'[q] = SNAPSHOTS[q]
                             /\ Len(MANIFEST'.rows) = Len(MANIFEST.rows) + 1
                             /\ SubSeq(MANIFEST'.rows, 1, Len(MANIFEST.rows)) = MANIFEST.rows
                             /\ MANIFEST'.rows[Len(MANIFEST'.rows)].sha256 = sha256_bytes(data)]_vars

\* a run that fell back to the second URL and appended a second manifest row
C10_Witness ==
    /\ pull.status = "updated"
    /\ pull.url_used = "http"
    /\ Len(MANIFEST.rows) = 2
    /\ MANIFEST.rows[1].sha256 # MANIFEST.rows[2].sha256
====
